---------------------------- MODULE Spec2Model ----------------------------
(***************************************************************************)
(* Model of flynn's controller front door (controller/controller.go):      *)
(* the request multiplexer muxHandler, the teardown handlers that main and *)
(* appHandler register with shutdown.BeforeExit, and controllerAPI's       *)
(* shutdown of the shared event listener.                                  *)
(*                                                                         *)
(* One HTTP connection carries arbitrary requests one after the other      *)
(* while the shutdown goroutine runs concurrently.  muxHandler is split    *)
(* at the points where it reads shared state or calls a collaborator, so   *)
(* that every interleaving with the teardown is a behaviour of the model.  *)
(***************************************************************************)
EXTENDS Naturals, Sequences, FiniteSets, TLC

\* ------------------------------------------------------------------ bounds
\* Connections of the model; Spec drives requests over MainConn.
NumConns == 2
\* Requests the process admits before the model stops admitting more.
MaxRequests == 2

Conns == 1..NumConns
MainConn == 1

\* ------------------------------------------------------- program constants
\* var ErrShutdown = errors.New("controller: shutting down")
ErrShutdown == "controller: shutting down"

\* A header the request does not carry.
Absent == "<absent>"

\* The CA_CERT values the process may be started with.
CACerts == {"cert-A", "cert-B"}

\* ----------------------------------------------------------- the requests
\* The route binding GET /apps/:apps_id/routes/:routes_type/:routes_id.
AppRoutePath == "/apps/:apps_id/routes/:routes_type/:routes_id"

Paths == {"/ping", "/ca-cert", "/events", "/apps", AppRoutePath}
Methods == {"GET", "POST"}

\* The Authorization header: none, Basic user:pass, or Bearer token.
AuthHeaders ==
    {[scheme |-> "none", user |-> "", pass |-> "", token |-> ""]}
    \cup {[scheme |-> "basic", user |-> u, pass |-> p, token |-> ""] :
            u \in {"", "admin"}, p \in {"", "key"}}
    \cup {[scheme |-> "bearer", user |-> "", pass |-> "", token |-> "tok"]}

\* Flynn-Auth-ID / Flynn-Auth-User as the client sent them.
ClientIdentityHeaders ==
    {[id |-> Absent, user |-> Absent], [id |-> "forged", user |-> "forged"]}

\* The requests to the paths whose handler answers at once: /ping,
\* /ca-cert and a resource collection.
Requests ==
    [path : Paths \ {AppRoutePath, "/events"}, method : Methods, grpcWebFraming : BOOLEAN,
     authorization : AuthHeaders, hdr : ClientIdentityHeaders]

\* The requests to the route of an app.
RouteRequests ==
    [path : {AppRoutePath}, method : Methods, grpcWebFraming : BOOLEAN,
     authorization : AuthHeaders, hdr : ClientIdentityHeaders]

NoRequest ==
    [path |-> "", method |-> "", grpcWebFraming |-> FALSE,
     authorization |-> [scheme |-> "none", user |-> "", pass |-> "", token |-> ""],
     hdr |-> [id |-> Absent, user |-> Absent]]

\* r.BasicAuth(): the password of a Basic Authorization header, "" otherwise.
BasicAuthPassword(r) ==
    IF r.authorization.scheme = "basic" THEN r.authorization.pass ELSE ""

\* grpcWeb.IsGrpcWebRequest(r): the framing of the request decides.
IsGrpcWebRequest(r) == r.grpcWebFraming

\* ------------------------------------------------------------- responses
NoResponse == [status |-> 0, body |-> "", by |-> "none"]

\* httphelper.ServiceUnavailableError(w, ErrShutdown.Error())
ShutdownResponse == [status |-> 503, body |-> ErrShutdown, by |-> "drain"]
\* w.WriteHeader(200) of the /ping bypass
PingResponse == [status |-> 200, body |-> "", by |-> "ping"]
\* w.WriteHeader(401) after a failed AuthorizeRequest
UnauthorizedResponse == [status |-> 401, body |-> "", by |-> "auth"]
\* whatever grpcWeb.ServeHTTP writes
RpcResponse == [status |-> 200, body |-> "grpc-web", by |-> "rpc"]

\* ------------------------------------------------------------ authorizer
\* What authorizer.AuthorizeRequest may return on success.
Identities ==
    {[ID |-> "", User |-> ""], [ID |-> "key1", User |-> ""],
     [ID |-> "tok1", User |-> "alice"]}
NoIdentity == [ID |-> "", User |-> ""]


\* ------------------------------------------------------- the REST dispatch
\* The handler httprouter selects for the request (the bindings of
\* appHandler); a path bound for another method only is answered 405.
RouteOf(r) ==
    CASE r.path = "/ca-cert" ->
            IF r.method = "GET" THEN "GetCACert" ELSE "MethodNotAllowed"
      [] r.path = "/events" ->
            IF r.method = "GET" THEN "Events" ELSE "MethodNotAllowed"
      [] r.path = "/apps" -> "crud"
      [] r.path = AppRoutePath ->
            IF r.method = "GET" THEN "appLookup(GetRoute)" ELSE "MethodNotAllowed"
      [] OTHER -> "NotFound"

\* ----------------------------------------------------- errors and lookups
\* The error values a repository hands to a handler; NoErr is nil.
NoErr == [kind |-> "nil", field |-> "", message |-> ""]
\* var ErrNotFound = ct.ErrNotFound
ErrNotFound == [kind |-> "ErrNotFound", field |-> "", message |-> "not found"]
\* data.ErrRouteNotFound
ErrRouteNotFound ==
    [kind |-> "ErrRouteNotFound", field |-> "", message |-> "route not found"]
\* ct.ValidationError{Field, Message}
ValidationErrors ==
    {[kind |-> "ValidationError", field |-> "name", message |-> "must not be blank"]}
\* Any other error, an opaque failure of the repository.
OtherErrors == {[kind |-> "error", field |-> "", message |-> "connection refused"]}

\* One write to the ResponseWriter: who wrote it, the status, and the
\* field and message it carries.
\* httphelper.ValidationError(w, v.Field, v.Message)
ValidationErrorWrite(field, message) ==
    [via |-> "httphelper.ValidationError", status |-> 422,
     field |-> field, message |-> message]
\* w.WriteHeader(404)
NotFoundWrite == [via |-> "WriteHeader", status |-> 404, field |-> "", message |-> ""]
\* httphelper.Error(w, err)
ErrorWrite(err) ==
    [via |-> "httphelper.Error", status |-> 500, field |-> "", message |-> err.message]

\* Variant: the return after WriteHeader(404) is missing.
respondWithErrorFallsThrough(err) ==
    IF err.kind = "ValidationError"
       THEN <<ValidationErrorWrite(err.field, err.message)>>
       ELSE IF err = ErrNotFound THEN <<NotFoundWrite, ErrorWrite(err)>>
       ELSE <<ErrorWrite(err)>>

\* respondWithError(w, err): the writes it makes, in order.
respondWithError(err) ==
    IF err.kind = "ValidationError"
       THEN <<ValidationErrorWrite(err.field, err.message)>>
       ELSE IF err = ErrNotFound THEN <<NotFoundWrite>>
       ELSE <<ErrorWrite(err)>>

\* The apps appRepo.Get may resolve apps_id to; NoApp is no app.
Apps == {[ID |-> "a1"], [ID |-> "a2"]}
NoApp == [ID |-> ""]

\* What c.appRepo.Get(params.ByName("apps_id")) may return.
AppRepoResults ==
    {[app |-> a, err |-> NoErr] : a \in Apps}
    \cup {[app |-> NoApp, err |-> e] :
            e \in {ErrNotFound} \cup ValidationErrors \cup OtherErrors}

\* ct.RouteParentRefPrefix
RouteParentRefPrefix == "controller/apps/"

\* routeParentRef(appID): the prefix followed by the app id.
routeParentRef(appID) == <<RouteParentRefPrefix, appID>>

\* The routes routeRepo.Get may find: of app a1, of app a2, of no app.
Routes ==
    {[ID |-> "r1", ParentRef |-> <<"controller/apps/", "a1">>],
     [ID |-> "r1", ParentRef |-> <<"controller/apps/", "a2">>],
     [ID |-> "r1", ParentRef |-> <<"", "a1">>]}
NoRoute == [ID |-> "", ParentRef |-> <<"", "">>]

\* What c.routeRepo.Get(routes_type, routes_id) may return.
RouteRepoResults ==
    {[route |-> r, err |-> NoErr] : r \in Routes}
    \cup {[route |-> NoRoute, err |-> e] : e \in {ErrRouteNotFound} \cup OtherErrors}
    \cup {[route |-> r, err |-> e] : r \in Routes, e \in OtherErrors}

\* Variant: the route is returned whatever app it belongs to.
getRouteOfAnyApp(res, app) ==
    IF res.err = ErrRouteNotFound THEN [route |-> NoRoute, err |-> ErrNotFound]
    ELSE IF res.err # NoErr THEN [route |-> NoRoute, err |-> res.err]
    ELSE [route |-> res.route, err |-> NoErr]

\* controllerAPI.getRoute: res is what routeRepo.Get returned, app the app
\* of the request's context.
getRoute(res, app) ==
    LET err == IF \/ res.err = ErrRouteNotFound
                  \/ res.err = NoErr /\ res.route.ParentRef # routeParentRef(app.ID)
                  THEN ErrNotFound
                  ELSE res.err
    IN  IF err # NoErr THEN [route |-> NoRoute, err |-> err]
                       ELSE [route |-> res.route, err |-> err]

\* ------------------------------------------------------------------ state
VARIABLES
    caCert,            \* handlerConfig.caCert, read from CA_CERT at startup
    active,            \* what shutdown.IsActive() returns
    mainpc,            \* main: "starting", "serving", "returned" (from
                       \* http.ListenAndServe, calling shutdown.Fatal) or
                       \* "fatal" (start-up ended in a fatal call)
    acquired,          \* start-up steps of main and appHandler completed
    registered,        \* the handlers passed to shutdown.BeforeExit, in order
    sp,                \* registered teardown handlers still to run
    sdpc,              \* position inside controllerAPI.Shutdown
    sdPtr,             \* the eventListener pointer Shutdown's check read
    tdLog,             \* the teardown handlers run so far, in order
    open,              \* per resource: acquired and not closed
    exited,            \* os.Exit was reached
    eventListener,     \* controllerAPI.eventListener: 0 is nil
    eventListenerMtx,  \* controllerAPI.eventListenerMtx: holder, 0 is free
    listeners,         \* every event listener constructed so far
    pc,                \* per connection: position inside the handlers
    req,               \* per connection: the request *r (headers mutable)
    resp,              \* per connection: the response written to w
    trace,             \* per connection: the calls made for the request
    handled,           \* requests admitted so far
    hist               \* history of the shutdown flag and of Shutdown

vars ==
    <<caCert, mainpc, acquired, registered, active, sp, sdpc, sdPtr, tdLog, open, exited, eventListener,
      eventListenerMtx, listeners, pc, req, resp, trace, handled, hist>>

startVars == <<mainpc, acquired, registered>>
shutdownVars == <<startVars, active, sp, sdpc, sdPtr, tdLog, open, exited>>
listenerVars == <<eventListener, eventListenerMtx, listeners>>
connVars == <<pc, req, resp, trace, handled>>

\* The teardown handlers in the order main and appHandler register them
\* with shutdown.BeforeExit.
RegisteredHandlers ==
    <<"db.Close", "close(doneCh)", "httpService.Close", "grpcListener.Close",
      "grpcService.Close", "api.Shutdown">>

\* The resource each handler closes.
Resources ==
    {"db", "doneCh", "httpService", "grpcListener", "grpcService", "httpListener"}

NoTrace ==
    [flagAtEntry |-> FALSE, observed |-> "unchecked", seenBefore |-> FALSE,
     authCalls |-> 0, authOutcome |-> "none", auth |-> NoIdentity,
     rpcCalls |-> 0, restCalls |-> 0, bypass |-> FALSE,
     handler |-> "none", dispatchedHdr |-> [id |-> Absent, user |-> Absent],
     dbOpenAtDispatch |-> TRUE, sub |-> 0, subOutcome |-> "none",
     lookup |-> [app |-> NoApp, err |-> NoErr], wrappedCalls |-> 0,
     ctxApp |-> NoApp, routeRes |-> [route |-> NoRoute, err |-> NoErr],
     got |-> [route |-> NoRoute, err |-> NoErr], rweErr |-> NoErr,
     writes |-> <<>>]

Init ==
    /\ caCert \in CACerts
    /\ active = FALSE
    /\ mainpc = "starting"
    /\ acquired = 0
    /\ registered = <<>>
    /\ sp = 0
    /\ sdpc = "idle"
    /\ sdPtr = 0
    /\ tdLog = <<>>
    /\ open = [x \in Resources |-> FALSE]
    /\ exited = FALSE
    /\ eventListener = 0
    /\ eventListenerMtx = 0
    /\ listeners = <<>>
    /\ pc = [c \in Conns |-> "idle"]
    /\ req = [c \in Conns |-> NoRequest]
    /\ resp = [c \in Conns |-> NoResponse]
    /\ trace = [c \in Conns |-> NoTrace]
    /\ handled = 0
    /\ hist = [flagSets |-> 0, drainSeen |-> FALSE, openAtShutdownEnd |-> 0,
               shutdownRan |-> FALSE, builtAfterShutdown |-> FALSE]

\* ------------------------------------------------------------- muxHandler
\* A request reaches the handler function muxHandler returns, on a
\* connection the http listener accepts or on one that carried a request.
Arrive(c, r) ==
    /\ ~exited
    /\ mainpc = "serving" \/ pc[c] = "done"
    /\ pc[c] \in {"idle", "done"}
    /\ handled < MaxRequests
    /\ handled' = handled + 1
    /\ pc' = [pc EXCEPT ![c] = "drain"]
    /\ req' = [req EXCEPT ![c] = r]
    /\ resp' = [resp EXCEPT ![c] = NoResponse]
    /\ trace' = [trace EXCEPT ![c] = NoTrace]
    /\ UNCHANGED <<caCert, shutdownVars, listenerVars, hist>>

\* Variant: the liveness path is answered ahead of the drain check.
DrainingUnlessPing(r) == active /\ r.path # "/ping"

\* Variant: only requests that may write are refused while draining.
DrainingForWritesOnly(r) == active /\ r.method # "GET"

\* The drain check of a request: shutdown.IsActive(), whatever the request.
Draining(r) == active

\* if shutdown.IsActive() { ServiceUnavailableError(w, ...); return }
\* flagAtEntry records the flag when the handler started, observed what the
\* check made of it, seenBefore whether an earlier check had seen draining.
DrainCheck(c) ==
    /\ ~exited
    /\ pc[c] = "drain"
    /\ trace' = [trace EXCEPT
                   ![c].flagAtEntry = active,
                   ![c].observed = IF Draining(req[c]) THEN "draining" ELSE "running",
                   ![c].seenBefore = hist.drainSeen]
    /\ hist' = [hist EXCEPT !.drainSeen = @ \/ Draining(req[c])]
    /\ IF Draining(req[c])
          THEN /\ resp' = [resp EXCEPT ![c] = ShutdownResponse]
               /\ pc' = [pc EXCEPT ![c] = "done"]
          ELSE /\ resp' = resp
               /\ pc' = [pc EXCEPT ![c] = "classify"]
    /\ UNCHANGED <<caCert, shutdownVars, listenerVars, req, handled>>

\* Variant: no path is exempt from authorization.
NoBootstrapBypass(r) == FALSE

\* Variant: the whole path is exempt, whatever the password.
BypassWholePath(r) == r.path = "/ca-cert"

\* password == "" && r.URL.Path == "/ca-cert"
BootstrapBypass(r) == BasicAuthPassword(r) = "" /\ r.path = "/ca-cert"

\* Variant: the grpc-web handoff is tried ahead of the /ping bypass.
ClassificationGrpcFirst(r) ==
    IF IsGrpcWebRequest(r) THEN "rpc"
    ELSE IF r.path = "/ping" THEN "ping"
    ELSE IF BootstrapBypass(r) THEN "bypass"
    ELSE "authorize"

\* Variant: the /ca-cert bypass is tried ahead of the grpc-web handoff.
ClassificationBypassFirst(r) ==
    IF r.path = "/ping" THEN "ping"
    ELSE IF BootstrapBypass(r) THEN "bypass"
    ELSE IF IsGrpcWebRequest(r) THEN "rpc"
    ELSE "authorize"

\* The /ping bypass, the grpc-web handoff and the /ca-cert bypass, in the
\* order muxHandler tries them.
Classification(r) ==
    IF r.path = "/ping" THEN "ping"
    ELSE IF IsGrpcWebRequest(r) THEN "rpc"
    ELSE IF BootstrapBypass(r) THEN "bypass"
    ELSE "authorize"

\* The request is answered (200 for /ping, grpcWeb.ServeHTTP), forwarded
\* to the dispatch unauthorized, or sent on to the authorizer.
Classify(c) ==
    /\ ~exited
    /\ pc[c] = "classify"
    /\ IF Classification(req[c]) = "ping"
          THEN /\ resp' = [resp EXCEPT ![c] = PingResponse]
               /\ pc' = [pc EXCEPT ![c] = "done"]
               /\ trace' = trace
          ELSE IF Classification(req[c]) = "rpc"
          THEN /\ resp' = [resp EXCEPT ![c] = RpcResponse]
               /\ pc' = [pc EXCEPT ![c] = "done"]
               /\ trace' = [trace EXCEPT ![c].rpcCalls = @ + 1]
          ELSE IF Classification(req[c]) = "bypass"
          THEN /\ resp' = resp
               /\ pc' = [pc EXCEPT ![c] = "dispatch"]
               /\ trace' = [trace EXCEPT ![c].bypass = TRUE]
          ELSE /\ resp' = resp
               /\ pc' = [pc EXCEPT ![c] = "authorize"]
               /\ trace' = trace
    /\ UNCHANGED <<caCert, shutdownVars, listenerVars, req, handled, hist>>

\* Variant: only Flynn-Auth-ID is stamped.
StampHeadersIDOnly(h, auth) ==
    IF auth.ID # "" THEN [id |-> auth.ID, user |-> h.user] ELSE h

\* r.Header.Set("Flynn-Auth-ID", auth.ID); r.Header.Set("Flynn-Auth-User", auth.User)
StampHeaders(h, auth) ==
    IF auth.ID # "" THEN [id |-> auth.ID, user |-> auth.User] ELSE h

\* Variant: the error of the authorizer is dropped.
RejectedNever(ok) == FALSE

\* if err != nil: the authorizer rejected the request.
Rejected(ok) == ~ok

\* auth, err := authorizer.AuthorizeRequest(r), then the 401 or the stamping.
\* ok is whether the authorizer accepted, auth the identity it returned.
Authorize(c, ok, auth) ==
    /\ ~exited
    /\ pc[c] = "authorize"
    /\ IF Rejected(ok)
          THEN /\ trace' = [trace EXCEPT ![c].authCalls = @ + 1,
                                         ![c].authOutcome = "error"]
               /\ resp' = [resp EXCEPT ![c] = UnauthorizedResponse]
               /\ pc' = [pc EXCEPT ![c] = "done"]
               /\ req' = req
          ELSE /\ trace' = [trace EXCEPT ![c].authCalls = @ + 1,
                                         ![c].authOutcome = IF ok THEN "ok" ELSE "error",
                                         ![c].auth = IF ok THEN auth ELSE NoIdentity]
               /\ resp' = resp
               /\ pc' = [pc EXCEPT ![c] = "dispatch"]
               /\ req' = [req EXCEPT ![c].hdr =
                                 StampHeaders(@, IF ok THEN auth ELSE NoIdentity)]
    /\ UNCHANGED <<caCert, shutdownVars, listenerVars, handled, hist>>

\* main.ServeHTTP(w, r): the request enters the REST dispatch table.
Dispatch(c) ==
    /\ ~exited
    /\ pc[c] = "dispatch"
    /\ trace' = [trace EXCEPT ![c].restCalls = @ + 1,
                              ![c].handler = RouteOf(req[c]),
                              ![c].dispatchedHdr = req[c].hdr,
                              ![c].dbOpenAtDispatch = open["db"]]
    /\ pc' = [pc EXCEPT ![c] = "serving"]
    /\ UNCHANGED <<caCert, shutdownVars, listenerVars, req, resp, handled, hist>>

\* The response of a bound handler that is not the event stream.
\* GetCACert writes c.caCert; the others are collaborators' handlers.
HandlerResponse(h) ==
    CASE h = "GetCACert" -> [status |-> 200, body |-> caCert, by |-> "GetCACert"]
      [] h = "MethodNotAllowed" -> [status |-> 405, body |-> "", by |-> "router"]
      [] h = "NotFound" -> [status |-> 404, body |-> "", by |-> "router"]
      [] OTHER -> [status |-> 200, body |-> "resource", by |-> h]

\* The handler the router selected runs to its end.
Serve(c) ==
    /\ ~exited
    /\ pc[c] = "serving"
    /\ trace[c].handler \notin {"Events", "appLookup(GetRoute)"}
    /\ resp' = [resp EXCEPT ![c] = HandlerResponse(trace[c].handler)]
    /\ pc' = [pc EXCEPT ![c] = "done"]
    /\ UNCHANGED <<caCert, shutdownVars, listenerVars, req, trace, handled, hist>>

\* The response the client gets from the writes of a handler: the first
\* write decides the status.
WrittenResponse(writes) ==
    [status |-> writes[1].status, body |-> writes[1].message, by |-> writes[1].via]

\* Variant: the return after respondWithError is missing.
appLookupInvokesAlways(res) == TRUE

\* appLookup: the wrapped handler is reached unless err != nil returned.
appLookupInvokes(res) == res.err = NoErr

\* The closure appLookup returns, up to its call of the wrapped handler:
\* res is what c.appRepo.Get returned.
appLookup(c, res) ==
    /\ ~exited
    /\ pc[c] = "serving"
    /\ trace[c].handler = "appLookup(GetRoute)"
    /\ LET writes == IF res.err # NoErr THEN respondWithError(res.err) ELSE <<>>
       IN  IF appLookupInvokes(res)
              THEN /\ trace' = [trace EXCEPT
                                  ![c].lookup = res,
                                  ![c].rweErr = res.err,
                                  ![c].writes = writes,
                                  ![c].ctxApp = res.app,
                                  ![c].wrappedCalls = @ + 1]
                   /\ pc' = [pc EXCEPT ![c] = "wrapped"]
                   /\ resp' = resp
              ELSE /\ trace' = [trace EXCEPT
                                  ![c].lookup = res,
                                  ![c].rweErr = res.err,
                                  ![c].writes = writes]
                   /\ pc' = [pc EXCEPT ![c] = "done"]
                   /\ resp' = [resp EXCEPT ![c] = WrittenResponse(writes)]
    /\ UNCHANGED <<caCert, shutdownVars, listenerVars, req, handled, hist>>

\* The wrapped handler GetRoute: getRoute, then respondWithError or the
\* route as JSON; rres is what c.routeRepo.Get returned.
GetRoute(c, rres) ==
    /\ ~exited
    /\ pc[c] = "wrapped"
    /\ LET g == getRoute(rres, trace[c].ctxApp)
           writes == trace[c].writes \o
                       (IF g.err # NoErr
                           THEN respondWithError(g.err)
                           ELSE <<[via |-> "httphelper.JSON", status |-> 200,
                                   field |-> "", message |-> g.route.ID]>>)
       IN  /\ trace' = [trace EXCEPT
                          ![c].routeRes = rres,
                          ![c].got = g,
                          ![c].rweErr = IF g.err # NoErr THEN g.err ELSE @,
                          ![c].writes = writes]
           /\ resp' = [resp EXCEPT ![c] = WrittenResponse(writes)]
    /\ pc' = [pc EXCEPT ![c] = "done"]
    /\ UNCHANGED <<caCert, shutdownVars, listenerVars, req, handled, hist>>

\* ---------------------------------------------------- the event listener
\* A listener as constructed: open, no error.
NewListener == [closed |-> FALSE, err |-> ""]

\* The events handler takes eventListenerMtx for its check-and-create.
SubLock(c) ==
    /\ ~exited
    /\ pc[c] = "serving"
    /\ trace[c].handler = "Events"
    /\ eventListenerMtx = 0
    /\ eventListenerMtx' = c
    /\ pc' = [pc EXCEPT ![c] = "subLocked"]
    /\ UNCHANGED <<caCert, shutdownVars, eventListener, listeners, req, resp,
                   trace, handled, hist>>

\* The check of check-and-create: the eventListener pointer is not nil.
ListenerExists(ptr) == ptr # 0

\* Check-and-create under the mutex, then unlock: an open listener is
\* reused, a closed one fails the subscription with its terminal error, and
\* with none a listener is constructed (built says whether that succeeded).
\* The requests waiting for the mutex while a construction fails observe
\* its failure; the pointer stays nil, so a later request constructs again.
SubCheckCreate(c, built) ==
    /\ ~exited
    /\ pc[c] = "subLocked"
    /\ eventListenerMtx = c
    /\ eventListenerMtx' = 0
    /\ IF ListenerExists(eventListener) /\ ~listeners[eventListener].closed
          THEN /\ trace' = [trace EXCEPT ![c].sub = eventListener,
                                         ![c].subOutcome = "attached"]
               /\ pc' = [pc EXCEPT ![c] = "streaming"]
               /\ UNCHANGED <<eventListener, listeners, resp, hist>>
          ELSE IF ListenerExists(eventListener)
          THEN /\ resp' = [resp EXCEPT ![c] =
                             [status |-> 500, body |-> listeners[eventListener].err,
                              by |-> "Events"]]
               /\ pc' = [pc EXCEPT ![c] = "done"]
               /\ trace' = [trace EXCEPT ![c].subOutcome = "closed"]
               /\ UNCHANGED <<eventListener, listeners, hist>>
          ELSE IF built
          THEN /\ listeners' = Append(listeners, NewListener)
               /\ eventListener' = Len(listeners) + 1
               /\ trace' = [trace EXCEPT ![c].sub = Len(listeners) + 1,
                                         ![c].subOutcome = "built"]
               /\ pc' = [pc EXCEPT ![c] = "streaming"]
               /\ resp' = resp
               /\ hist' = [hist EXCEPT !.builtAfterShutdown = @ \/ hist.shutdownRan]
          ELSE LET observers ==
                       {c} \cup {d \in Conns : /\ pc[d] = "serving"
                                               /\ trace[d].handler = "Events"}
               IN  /\ resp' = [d \in Conns |->
                                 IF d \in observers
                                    THEN [status |-> 500, body |-> "listen failed",
                                          by |-> "Events"]
                                    ELSE resp[d]]
                   /\ pc' = [d \in Conns |->
                               IF d \in observers THEN "done" ELSE pc[d]]
                   /\ trace' = [d \in Conns |->
                                  IF d \in observers
                                     THEN [trace[d] EXCEPT !.subOutcome = "failed"]
                                     ELSE trace[d]]
                   /\ UNCHANGED <<eventListener, listeners, hist>>
    /\ UNCHANGED <<caCert, shutdownVars, req, handled>>

\* The stream of a subscriber ends with the error its listener was closed with.
StreamEnd(c) ==
    /\ ~exited
    /\ pc[c] = "streaming"
    /\ listeners[trace[c].sub].closed
    /\ resp' = [resp EXCEPT ![c] =
                  [status |-> 200, body |-> listeners[trace[c].sub].err,
                   by |-> "Events"]]
    /\ pc' = [pc EXCEPT ![c] = "done"]
    /\ UNCHANGED <<caCert, shutdownVars, listenerVars, req, trace, handled, hist>>

\* The client closes the connection of an open stream.
Disconnect(c) ==
    /\ ~exited
    /\ pc[c] = "streaming"
    /\ ~listeners[trace[c].sub].closed
    /\ resp' = [resp EXCEPT ![c] = [status |-> 200, body |-> "", by |-> "Events"]]
    /\ pc' = [pc EXCEPT ![c] = "done"]
    /\ UNCHANGED <<caCert, shutdownVars, listenerVars, req, trace, handled, hist>>

\* ------------------------------------------------------------ the start-up
\* The resource a registered handler closes.
Closes(h) ==
    CASE h = "db.Close" -> "db"
      [] h = "close(doneCh)" -> "doneCh"
      [] h = "httpService.Close" -> "httpService"
      [] h = "grpcListener.Close" -> "grpcListener"
      [] h = "grpcService.Close" -> "grpcService"

\* log.Fatalln of main: NAME_SEED, ACCESS_TOKEN_KEY or
\* ACCESS_TOKEN_MAX_VALIDITY does not parse; the process exits at once, no
\* handler is registered yet and none runs.
LogFatal ==
    /\ mainpc = "starting" /\ ~active /\ ~exited
    /\ acquired = 0 /\ registered = <<>>
    /\ exited' = TRUE
    /\ mainpc' = "fatal"
    /\ UNCHANGED <<caCert, acquired, registered, active, sp, sdpc, sdPtr, tdLog,
                   open, listenerVars, connVars, hist>>

\* The next start-up step of main and appHandler succeeds: the database is
\* opened, doneCh made, the http service registered, the grpc listener
\* bound, the grpc service registered, the controllerAPI built.
Acquire ==
    /\ mainpc = "starting" /\ ~exited
    /\ acquired = Len(registered)
    /\ acquired < Len(RegisteredHandlers)
    /\ acquired' = acquired + 1
    /\ open' = IF RegisteredHandlers[acquired + 1] = "api.Shutdown"
                  THEN open
                  ELSE [open EXCEPT ![Closes(RegisteredHandlers[acquired + 1])] = TRUE]
    /\ UNCHANGED <<caCert, mainpc, registered, active, sp, sdpc, sdPtr, tdLog,
                   exited, listenerVars, connVars, hist>>

\* shutdown.BeforeExit(f): the closure of the step just completed is pushed.
\* What pkg/shutdown does with a registration made after the exit has begun
\* is not in this file: the model has main register nothing more by then.
BeforeExit ==
    /\ mainpc = "starting" /\ ~active /\ ~exited
    /\ acquired = Len(registered) + 1
    /\ registered' = Append(registered, RegisteredHandlers[acquired])
    /\ sp' = sp + 1
    /\ UNCHANGED <<caCert, mainpc, acquired, active, sdpc, sdPtr, tdLog, open,
                   exited, listenerVars, connVars, hist>>

\* shutdown.Fatal(err) of a failed start-up step (logaggc.New, the two
\* registrations with discoverd, net.Listen, schema.Load, the bind of
\* http.ListenAndServe), which ends the start-up, or of the error
\* http.ListenAndServe returned; the exit begins with the handlers
\* registered so far unless a signal began it already.
Fatal ==
    /\ ~exited
    /\ \/ /\ mainpc = "starting"
          /\ acquired = Len(registered)
          /\ acquired >= 1
          /\ mainpc' = "fatal"
       \/ /\ mainpc = "returned"
          /\ ~active
          /\ mainpc' = mainpc
    /\ active' = TRUE
    /\ hist' = [hist EXCEPT !.flagSets = IF active THEN @ ELSE @ + 1]
    /\ UNCHANGED <<caCert, acquired, registered, sp, sdpc, sdPtr, tdLog, open,
                   exited, listenerVars, connVars>>

\* http.ListenAndServe(httpAddr, handler) binds the http listener and serves.
ListenAndServe ==
    /\ mainpc = "starting" /\ ~exited
    /\ Len(registered) = Len(RegisteredHandlers)
    /\ mainpc' = "serving"
    /\ open' = [open EXCEPT !["httpListener"] = TRUE]
    /\ UNCHANGED <<caCert, acquired, registered, active, sp, sdpc, sdPtr, tdLog,
                   exited, listenerVars, connVars, hist>>

\* http.ListenAndServe returns, before or after the exit has begun: the
\* accept loop ended with an error and net/http closed the listener; the
\* connections it accepted are still served.
ServeReturns ==
    /\ mainpc = "serving" /\ ~exited
    /\ mainpc' = "returned"
    /\ open' = [open EXCEPT !["httpListener"] = FALSE]
    /\ UNCHANGED <<caCert, acquired, registered, active, sp, sdpc, sdPtr, tdLog,
                   exited, listenerVars, connVars, hist>>

\* ------------------------------------------------------------- the teardown
\* The termination signal starts the exit: the flag is set before any
\* handler runs, with the handlers registered by then.
Exit ==
    /\ ~active /\ ~exited
    /\ active' = TRUE
    /\ hist' = [hist EXCEPT !.flagSets = @ + 1]
    /\ UNCHANGED <<caCert, startVars, sp, sdpc, sdPtr, tdLog, open, exited,
                   listenerVars, connVars>>

\* The handlers the exit may run next. The loop of pkg/shutdown is not in
\* this file: it walks the registered handlers from the last to the first
\* or from the first to the last, and the first handler run shows which.
NextHandlers ==
    IF sp = 0 THEN {}
    ELSE IF tdLog = <<>> THEN {registered[Len(registered)], registered[1]}
    ELSE IF tdLog[1] = registered[Len(registered)] THEN {registered[sp]}
    ELSE {registered[Len(registered) - sp + 1]}

\* One registered handler other than api.Shutdown runs.
RunHandler ==
    /\ active /\ ~exited
    /\ sdpc # "checked"
    /\ \E h \in NextHandlers \ {"api.Shutdown"} :
          /\ open' = [open EXCEPT ![Closes(h)] = FALSE]
          /\ tdLog' = Append(tdLog, h)
    /\ sp' = sp - 1
    /\ UNCHANGED <<caCert, startVars, active, sdpc, sdPtr, exited, listenerVars,
                   connVars, hist>>

\* controllerAPI.Shutdown: if c.eventListener != nil (read without the mutex)
ShutdownCheck ==
    /\ active /\ ~exited
    /\ "api.Shutdown" \in NextHandlers
    /\ sdpc = "idle"
    /\ sdPtr' = eventListener
    /\ sdpc' = "checked"
    /\ UNCHANGED <<caCert, startVars, active, sp, tdLog, open, exited,
                   listenerVars, connVars, hist>>

\* controllerAPI.Shutdown: c.eventListener.CloseWithError(ErrShutdown), return
ShutdownClose ==
    /\ active /\ ~exited
    /\ sdpc = "checked"
    /\ listeners' =
          IF sdPtr # 0 /\ ~listeners[sdPtr].closed
             THEN [listeners EXCEPT ![sdPtr] = [closed |-> TRUE, err |-> ErrShutdown]]
             ELSE listeners
    /\ sdpc' = "done"
    /\ tdLog' = Append(tdLog, "api.Shutdown")
    /\ sp' = sp - 1
    /\ hist' = [hist EXCEPT !.shutdownRan = TRUE,
                            !.openAtShutdownEnd =
                               Cardinality({i \in 1..Len(listeners') :
                                              ~listeners'[i].closed})]
    /\ UNCHANGED <<caCert, startVars, active, sdPtr, open, exited, eventListener,
                   eventListenerMtx, connVars>>

\* Every handler has run: os.Exit.
ProcessExit ==
    /\ active /\ ~exited
    /\ sp = 0
    /\ exited' = TRUE
    /\ UNCHANGED <<caCert, startVars, active, sp, sdpc, sdPtr, tdLog, open,
                   listenerVars, connVars, hist>>

\* ------------------------------------------------------- the specification
Next ==
    \/ \E r \in Requests : Arrive(MainConn, r)
    \/ DrainCheck(MainConn)
    \/ Classify(MainConn)
    \/ \E ok \in BOOLEAN, auth \in Identities : Authorize(MainConn, ok, auth)
    \/ Dispatch(MainConn)
    \/ Serve(MainConn)
    \/ LogFatal
    \/ Acquire
    \/ BeforeExit
    \/ Fatal
    \/ ListenAndServe
    \/ ServeReturns
    \/ Exit
    \/ RunHandler
    \/ ShutdownCheck
    \/ ShutdownClose
    \/ ProcessExit

Spec == Init /\ [][Next]_vars

\* The requests to the route of an app, served while the process may be
\* told to exit; no event stream is requested, so Shutdown finds no listener.
NextRoutes ==
    \/ \E r \in RouteRequests : Arrive(MainConn, r)
    \/ DrainCheck(MainConn)
    \/ Classify(MainConn)
    \/ \E ok \in BOOLEAN, auth \in Identities : Authorize(MainConn, ok, auth)
    \/ Dispatch(MainConn)
    \/ Serve(MainConn)
    \/ \E res \in AppRepoResults : appLookup(MainConn, res)
    \/ \E rres \in RouteRepoResults : GetRoute(MainConn, rres)
    \/ LogFatal
    \/ Acquire
    \/ BeforeExit
    \/ Fatal
    \/ ListenAndServe
    \/ ServeReturns
    \/ Exit
    \/ RunHandler
    \/ ShutdownCheck
    \/ ShutdownClose
    \/ ProcessExit

SpecRoutes == Init /\ [][NextRoutes]_vars

\* The subscriptions to the event stream.
SubRequests ==
    [path : {"/events"}, method : {"GET"}, grpcWebFraming : {FALSE},
     authorization : {[scheme |-> "basic", user |-> "", pass |-> "key", token |-> ""]},
     hdr : {[id |-> Absent, user |-> Absent]}]

\* The identity the authorizer returns for the key of a subscriber.
SubscriberIdentity == [ID |-> "key1", User |-> ""]

\* Subscriptions arriving on every connection at once, while the process
\* may be told to exit.
NextSubs ==
    \/ \E c \in Conns, r \in SubRequests : Arrive(c, r)
    \/ \E c \in Conns : DrainCheck(c)
    \/ \E c \in Conns : Classify(c)
    \/ \E c \in Conns, ok \in BOOLEAN : Authorize(c, ok, SubscriberIdentity)
    \/ \E c \in Conns : Dispatch(c)
    \/ \E c \in Conns : SubLock(c)
    \/ \E c \in Conns, built \in BOOLEAN : SubCheckCreate(c, built)
    \/ \E c \in Conns : StreamEnd(c)
    \/ \E c \in Conns : Disconnect(c)
    \/ LogFatal
    \/ Acquire
    \/ BeforeExit
    \/ Fatal
    \/ ListenAndServe
    \/ ServeReturns
    \/ Exit
    \/ RunHandler
    \/ ShutdownCheck
    \/ ShutdownClose
    \/ ProcessExit

SpecSubs == Init /\ [][NextSubs]_vars

\* ------------------------------------------------------------- the claims
\* Whether the request carries any credential at all.
HasCredential(r) ==
    \/ r.authorization.scheme = "bearer"
    \/ r.authorization.scheme = "basic"
       /\ (r.authorization.user # "" \/ r.authorization.pass # "")

\* Positions of muxHandler after the classification of the request.
PastClassify ==
    {"authorize", "dispatch", "serving", "wrapped", "subLocked", "streaming", "done"}
\* Positions of muxHandler after the authorization step.
PastAuthorize == {"dispatch", "serving", "wrapped", "subLocked", "streaming", "done"}

\* C1: a request whose handler starts while the shutdown flag is active gets
\* the 503 response carrying ErrShutdown, whatever its path, method, framing
\* and credentials, and neither the authorizer, the RPC server nor the REST
\* dispatch table is called for it.
C1_DrainRefusesEveryRequest ==
    \A c \in Conns :
        (pc[c] \notin {"idle", "drain"} /\ trace[c].flagAtEntry) =>
            /\ pc[c] = "done"
            /\ resp[c] = ShutdownResponse
            /\ resp[c].status = 503 /\ resp[c].body = ErrShutdown
            /\ trace[c].authCalls = 0
            /\ trace[c].rpcCalls = 0
            /\ trace[c].restCalls = 0

C1_Witness ==
    \E c \in Conns :
        /\ pc[c] = "done" /\ trace[c].flagAtEntry
        /\ req[c].path = "/ca-cert" /\ req[c].method = "POST"
        /\ req[c].grpcWebFraming /\ HasCredential(req[c])
        /\ resp[c] = ShutdownResponse

\* C2: a request that was not answered by the drain check, the /ping bypass,
\* the grpc-web handoff or the /ca-cert bypass enters the REST dispatch only
\* after AuthorizeRequest was called on it and succeeded; when
\* AuthorizeRequest fails the response is 401 with no body and the REST
\* dispatch is never entered.
C2_DispatchOnlyAfterAuthorization ==
    \A c \in Conns :
        /\ (trace[c].restCalls > 0 /\ ~trace[c].bypass) =>
              (trace[c].authCalls = 1 /\ trace[c].authOutcome = "ok")
        /\ (pc[c] \in PastAuthorize /\ ~trace[c].bypass
              /\ trace[c].observed = "running" /\ resp[c].by \notin {"ping", "rpc"}) =>
              trace[c].authCalls = 1
        /\ trace[c].authOutcome = "error" =>
              /\ pc[c] = "done"
              /\ resp[c].status = 401 /\ resp[c].body = ""
              /\ trace[c].restCalls = 0

C2_Witness ==
    \E c \in Conns :
        /\ trace[c].authOutcome = "error" /\ pc[c] = "done"
        /\ resp[c].status = 401 /\ trace[c].restCalls = 0
        /\ req[c].path = "/apps"

\* C3 as claimed: every request to /ca-cert with no credential, handled
\* while not draining, is answered with the configured CA certificate and
\* without any call to the authorizer.
C3_Claimed ==
    \A c \in Conns :
        (pc[c] = "done" /\ trace[c].observed = "running"
            /\ req[c].path = "/ca-cert" /\ ~HasCredential(req[c])) =>
            /\ resp[c].by = "GetCACert" /\ resp[c].body = caCert
            /\ trace[c].authCalls = 0

\* C3 as amended: every GET request to /ca-cert that is not grpc-web framed
\* and carries no credential, handled while not draining, is answered 200
\* with the configured CA certificate and without any call to the
\* authorizer; a grpc-web framed one goes to the RPC server and another
\* method is answered by the router, also without the authorizer.
C3_CaCertWithoutCredential ==
    \A c \in Conns :
        (trace[c].observed = "running"
            /\ req[c].path = "/ca-cert" /\ ~HasCredential(req[c])) =>
            /\ trace[c].authCalls = 0
            /\ pc[c] = "done" =>
                 IF IsGrpcWebRequest(req[c])
                    THEN resp[c] = RpcResponse
                    ELSE IF req[c].method = "GET"
                    THEN resp[c] = [status |-> 200, body |-> caCert, by |-> "GetCACert"]
                    ELSE resp[c].by = "router"

C3_Witness ==
    \E c \in Conns :
        /\ pc[c] = "done" /\ trace[c].observed = "running"
        /\ req[c].path = "/ca-cert" /\ ~HasCredential(req[c])
        /\ req[c].method = "GET" /\ ~IsGrpcWebRequest(req[c])
        /\ resp[c].body = caCert /\ resp[c].by = "GetCACert"
        /\ trace[c].authCalls = 0

\* A /ca-cert request that reached the bootstrap check of muxHandler.
AtBootstrapCheck(c) ==
    /\ req[c].path = "/ca-cert"
    /\ trace[c].observed = "running"
    /\ ~IsGrpcWebRequest(req[c])
    /\ pc[c] \in PastAuthorize

\* C4 as claimed: a /ca-cert request skips the authorizer only if it carries
\* no credential at all; one that carries any credential (a basic-auth
\* username, a basic-auth password, a token) is passed to AuthorizeRequest,
\* and is answered 401 and not dispatched when the authorizer rejects it.
C4_Claimed ==
    \A c \in Conns :
        (AtBootstrapCheck(c) /\ HasCredential(req[c])) =>
            /\ trace[c].authCalls = 1
            /\ ~trace[c].bypass
            /\ trace[c].authOutcome = "error" =>
                 (resp[c].status = 401 /\ trace[c].restCalls = 0)

\* C4 as amended: a /ca-cert request skips the authorizer exactly if its
\* basic-auth password is empty; one that carries a non-empty basic-auth
\* password is passed to AuthorizeRequest, and is answered 401 and not
\* dispatched when the authorizer rejects it, while one that carries only a
\* basic-auth username or a bearer token is dispatched unauthorized.
C4_CaCertBypassIffNoPassword ==
    \A c \in Conns :
        /\ trace[c].bypass =>
              (req[c].path = "/ca-cert" /\ BasicAuthPassword(req[c]) = "")
        /\ (AtBootstrapCheck(c) /\ BasicAuthPassword(req[c]) # "") =>
              /\ trace[c].authCalls = 1
              /\ ~trace[c].bypass
              /\ trace[c].authOutcome = "error" =>
                   (resp[c].status = 401 /\ trace[c].restCalls = 0)
        /\ (AtBootstrapCheck(c) /\ BasicAuthPassword(req[c]) = "") =>
              (trace[c].bypass /\ trace[c].authCalls = 0)

C4_Witness ==
    \E c \in Conns :
        /\ AtBootstrapCheck(c) /\ pc[c] = "done"
        /\ BasicAuthPassword(req[c]) # ""
        /\ trace[c].authCalls = 1 /\ trace[c].authOutcome = "error"
        /\ resp[c].status = 401 /\ trace[c].restCalls = 0

\* C5: the outcome of a /ping request depends only on the drain flag: 503
\* with ErrShutdown while draining, 200 while not draining, whatever the
\* credentials and the framing; the authorizer, the RPC server and the REST
\* dispatch are never called for it.
C5_PingDependsOnlyOnDrain ==
    \A c \in Conns :
        req[c].path = "/ping" =>
            /\ pc[c] \in {"drain", "classify", "done"}
            /\ trace[c].authCalls = 0
            /\ trace[c].rpcCalls = 0
            /\ trace[c].restCalls = 0
            /\ pc[c] = "done" =>
                 resp[c] = IF trace[c].flagAtEntry THEN ShutdownResponse
                                                   ELSE PingResponse

C5_Witness ==
    \E c \in Conns :
        /\ req[c].path = "/ping" /\ pc[c] = "done"
        /\ ~trace[c].flagAtEntry
        /\ req[c].grpcWebFraming /\ HasCredential(req[c])
        /\ resp[c].status = 200

\* C6: a grpc-web request that arrives while not draining and is not for
\* /ping is handed to the RPC server and to nothing else: AuthorizeRequest
\* and the REST dispatch are never called for it, whatever its path and
\* credentials.
C6_GrpcWebOnlyToRpcServer ==
    \A c \in Conns :
        (IsGrpcWebRequest(req[c]) /\ req[c].path # "/ping"
            /\ trace[c].observed = "running") =>
            /\ pc[c] \in {"classify", "done"}
            /\ trace[c].authCalls = 0
            /\ trace[c].restCalls = 0
            /\ pc[c] = "done" => (trace[c].rpcCalls = 1 /\ resp[c] = RpcResponse)

C6_Witness ==
    \E c \in Conns :
        /\ IsGrpcWebRequest(req[c]) /\ req[c].path = "/ca-cert"
        /\ ~HasCredential(req[c])
        /\ pc[c] = "done" /\ trace[c].rpcCalls = 1
        /\ trace[c].restCalls = 0 /\ trace[c].authCalls = 0

\* C7: when AuthorizeRequest succeeds with a non-empty id, the request that
\* enters the REST dispatch carries Flynn-Auth-ID and Flynn-Auth-User set
\* to that identity's id and user, and they are set before the dispatch.
C7_IdentityHeadersStamped ==
    \A c \in Conns :
        (trace[c].authOutcome = "ok" /\ trace[c].auth.ID # "") =>
            /\ pc[c] \in PastAuthorize =>
                 req[c].hdr = [id |-> trace[c].auth.ID, user |-> trace[c].auth.User]
            /\ trace[c].restCalls > 0 =>
                 trace[c].dispatchedHdr =
                    [id |-> trace[c].auth.ID, user |-> trace[c].auth.User]

C7_Witness ==
    \E c \in Conns :
        /\ trace[c].authOutcome = "ok" /\ trace[c].auth.ID = "tok1"
        /\ trace[c].restCalls = 1
        /\ trace[c].dispatchedHdr = [id |-> "tok1", user |-> "alice"]

\* Whether teardown handler h has run.
Ran(h) == \E i \in 1..Len(tdLog) : tdLog[i] = h

\* Whether some constructed event listener has been closed.
SomeListenerClosed == \E i \in 1..Len(listeners) : listeners[i].closed

\* The discovery registrations of the two listeners.
DiscoveryCloses == {"httpService.Close", "grpcService.Close"}

\* Whether teardown handler h was registered.
Registered(h) == \E i \in 1..Len(registered) : registered[i] = h

\* C8: the teardown runs (a) the close of both discovery registrations,
\* (b) the close of the event listener, (c) the close of the connection
\* pool, (d) the stop of both listeners: no registered action of a later
\* step has run before every registered action of an earlier step, and
\* when the teardown of a complete start-up is over the http listener
\* accepts no connections any more.
C8_Claimed ==
    /\ Ran("api.Shutdown") =>
          \A a \in DiscoveryCloses : Registered(a) => Ran(a)
    /\ Ran("db.Close") =>
          \A a \in DiscoveryCloses \cup {"api.Shutdown"} : Registered(a) => Ran(a)
    /\ Ran("grpcListener.Close") =>
          \A a \in DiscoveryCloses \cup {"api.Shutdown", "db.Close"} :
              Registered(a) => Ran(a)
    /\ (active /\ sp = 0 /\ Len(registered) = Len(RegisteredHandlers)
          /\ mainpc = "serving") => ~open["httpListener"]

\* C9: the shutdown state starts as running and changes to draining at most
\* once and never back; once a drain check has observed draining, every
\* drain check that starts later observes draining too; and the flag is
\* already draining when the first teardown action runs (the process exits
\* without the flag only by log.Fatalln, before any handler is registered).
C9_ShutdownMonotonic ==
    /\ hist.flagSets <= 1
    /\ active <=> hist.flagSets = 1
    /\ hist.drainSeen => active
    /\ \A c \in Conns :
          (trace[c].observed # "unchecked" /\ trace[c].seenBefore) =>
              trace[c].observed = "draining"
    /\ (tdLog # <<>> \/ sdpc # "idle" \/ SomeListenerClosed
          \/ \E i \in 1..acquired :
                /\ RegisteredHandlers[i] # "api.Shutdown"
                /\ ~open[Closes(RegisteredHandlers[i])]) => active
    /\ exited => (active \/ registered = <<>>)

C9_Witness ==
    /\ tdLog # <<>>
    /\ \E c \in Conns :
          /\ trace[c].seenBefore /\ trace[c].observed = "draining"
          /\ resp[c] = ShutdownResponse

\* C10: when controllerAPI.Shutdown has run, every event listener that was
\* constructed by then is closed with ErrShutdown, also when a first
\* subscription constructs the listener while Shutdown checks the
\* eventListener field.
C10_Claimed ==
    hist.shutdownRan => hist.openAtShutdownEnd = 0

\* C11: once controllerAPI.Shutdown has run, whether or not a listener had
\* been constructed before, every later subscription fails with the
\* shutdown error and no event listener is constructed any more.
C11_Claimed ==
    /\ ~hist.builtAfterShutdown
    /\ \A c \in Conns :
          (hist.shutdownRan /\ trace[c].subOutcome = "closed") =>
              resp[c].body = ErrShutdown

\* C13: every access to the eventListener pointer is made while holding
\* eventListenerMtx, the read and the close of controllerAPI.Shutdown
\* included: Shutdown is never between its read and its close of the
\* pointer while a subscription holds the mutex for its check-and-create.
C13_Claimed ==
    sdpc = "checked" => eventListenerMtx = 0

\* C15: the identity headers a REST handler sees come only from the
\* authorizer: a request enters the dispatch with Flynn-Auth-ID and
\* Flynn-Auth-User equal to the identity AuthorizeRequest returned, and a
\* request dispatched as anonymous (empty id, or the /ca-cert bypass)
\* enters it with neither header, whatever the client sent.
C15_Claimed ==
    \A c \in Conns :
        trace[c].restCalls > 0 =>
            trace[c].dispatchedHdr =
                IF trace[c].authOutcome = "ok" /\ trace[c].auth.ID # ""
                   THEN [id |-> trace[c].auth.ID, user |-> trace[c].auth.User]
                   ELSE [id |-> Absent, user |-> Absent]

\* C14: respondWithError answers every error with exactly one write chosen
\* by the kind of the error: a ValidationError with the validation response
\* carrying its field and message, ErrNotFound with status 404 and an empty
\* body, any other error with httphelper.Error; a ValidationError or
\* ErrNotFound is never passed to httphelper.Error.
C14_OneResponsePerErrorKind ==
    \A c \in Conns :
        trace[c].rweErr # NoErr =>
            LET e == trace[c].rweErr
                w == trace[c].writes
            IN  /\ Len(w) = 1
                /\ e.kind = "ValidationError" =>
                      /\ w[1].via = "httphelper.ValidationError"
                      /\ w[1].field = e.field /\ w[1].message = e.message
                /\ e.kind = "ErrNotFound" =>
                      /\ w[1] = [via |-> "WriteHeader", status |-> 404,
                                 field |-> "", message |-> ""]
                      /\ resp[c].status = 404 /\ resp[c].body = ""
                /\ e.kind \notin {"ValidationError", "ErrNotFound"} =>
                      w[1].via = "httphelper.Error" /\ w[1].message = e.message

C14_Witness ==
    \E c \in Conns :
        /\ pc[c] = "done"
        /\ trace[c].rweErr.kind = "ValidationError"
        /\ Len(trace[c].writes) = 1
        /\ trace[c].writes[1].via = "httphelper.ValidationError"
        /\ trace[c].writes[1].field = "name"

\* C16: a request that passed the drain check while the process was running
\* finishes its REST dispatch before teardown closes the database pool: the
\* pool is open when main.ServeHTTP is entered for it and stays open while
\* its handler runs.
C16_Claimed ==
    \A c \in Conns :
        /\ (trace[c].observed = "running" /\ trace[c].restCalls > 0) =>
              trace[c].dbOpenAtDispatch
        /\ (trace[c].observed = "running" /\ pc[c] \in {"serving", "wrapped"}) =>
              open["db"]

\* C17: getRoute returns a route only when routeRepo.Get found it and its
\* ParentRef is the prefix "controller/apps/" followed by the id of the app
\* of the request; a route that does not exist and a route of another app
\* both give ErrNotFound and no route; any other error of the repository
\* is returned as it is, with no route.
C17_RouteOnlyOfItsApp ==
    \A c \in Conns :
        (pc[c] = "done" /\ trace[c].wrappedCalls > 0) =>
            LET rres == trace[c].routeRes
                g == trace[c].got
                owned == /\ rres.err = NoErr
                         /\ rres.route.ParentRef =
                               <<"controller/apps/", trace[c].ctxApp.ID>>
            IN  /\ owned => g = [route |-> rres.route, err |-> NoErr]
                /\ g.route # NoRoute => owned
                /\ (rres.err.kind = "ErrRouteNotFound"
                      \/ (rres.err = NoErr /\ ~owned)) =>
                      g = [route |-> NoRoute, err |-> ErrNotFound]
                /\ rres.err.kind \notin {"nil", "ErrRouteNotFound"} =>
                      g = [route |-> NoRoute, err |-> rres.err]

C17_Witness ==
    \E c \in Conns :
        /\ pc[c] = "done"
        /\ trace[c].ctxApp.ID = "a1"
        /\ trace[c].routeRes.err = NoErr
        /\ trace[c].routeRes.route.ParentRef = <<"controller/apps/", "a2">>
        /\ trace[c].got = [route |-> NoRoute, err |-> ErrNotFound]
        /\ resp[c].status = 404

\* C18: the handler appLookup wraps is invoked exactly once when
\* appRepo.Get succeeded and never when it failed; when invoked, the app of
\* its context is the app the lookup returned; when the lookup failed the
\* request ends with the single write of respondWithError for that error,
\* status 404 and an empty body for ErrNotFound.
C18_WrappedOnceIffLookupSucceeded ==
    \A c \in Conns :
        (trace[c].handler = "appLookup(GetRoute)" /\ pc[c] \in {"wrapped", "done"}) =>
            LET l == trace[c].lookup
            IN  /\ trace[c].wrappedCalls = IF l.err = NoErr THEN 1 ELSE 0
                /\ l.err = NoErr => trace[c].ctxApp = l.app /\ l.app \in Apps
                /\ l.err # NoErr =>
                      /\ pc[c] = "done"
                      /\ trace[c].rweErr = l.err
                      /\ Len(trace[c].writes) = 1
                      /\ resp[c].by = trace[c].writes[1].via
                      /\ resp[c].status = trace[c].writes[1].status
                /\ l.err.kind = "ErrNotFound" =>
                      resp[c] = [status |-> 404, body |-> "", by |-> "WriteHeader"]

C18_Witness ==
    \E c \in Conns :
        /\ pc[c] = "done"
        /\ trace[c].handler = "appLookup(GetRoute)"
        /\ trace[c].lookup.err = ErrNotFound
        /\ trace[c].wrappedCalls = 0
        /\ resp[c].status = 404

=============================================================================
